---- MODULE Spec2Model ----
(***************************************************************************)
(* A model of the backtesting engine of quant-stock:                       *)
(*   src/src/core/backtesting/engine.py  (Position, Portfolio,             *)
(*   BacktestEngine), src/src/core/backtesting/strategies.py,              *)
(* and of its order management:                                            *)
(*   src/src/core/trading/order_manager.py  (OrderManager),                *)
(*   src/src/core/trading/broker_adapter.py  (Order, PaperTradingAdapter). *)
(*                                                                         *)
(* Money.  The code computes with decimal.Decimal.  Here a Decimal is a    *)
(* record [nan, v]: v is the amount in units of 1/Scale of a currency      *)
(* unit, and nan tells the quiet NaN that Decimal(str(float("nan")))       *)
(* yields.  Prices are whole currency units and commission rates are       *)
(* multiples of 1/Scale, so every product and sum of the code is exact in  *)
(* this representation (the code's 28-digit context never rounds at the    *)
(* magnitudes explored).                                                   *)
(*                                                                         *)
(* Optional values (None or a value) are sequences: << >> is None and      *)
(* <<x>> is x.                                                             *)
(***************************************************************************)
EXTENDS Integers, Sequences, FiniteSets, TLC

VARIABLES
    portfolio,        \* the Portfolio object (engine.py:94-106)
    call,             \* the Portfolio.buy / Portfolio.sell call made by the last step
    ret,              \* what that call returned (None or the Position)
    exc,              \* the exception that left the last step ("" when none)
    pc,               \* where BacktestEngine.run stands
    strategy,         \* run's argument: which strategy function it is given
    tickers,          \* run's argument: the requested tickers
    db,               \* the DailyPrice table behind self.db
    price_data,       \* run's local: the loaded rows
    day,              \* run's local: position of trading_day in trading_days
    current_prices,   \* run's local: this day's price map
    hist,             \* the frame slice handed to the strategy on this day
    signals,          \* the map the strategy returned, in iteration order
    idx,              \* _execute_signals: position of the next signal
    results,          \* the dictionary run returned
    other,            \* a second BacktestEngine and its run, while it is not
                      \* the one taking steps (NoEngine when there is none)
    orders,           \* the Order objects, by order_id: OrderManager.orders
    pending_orders,   \* OrderManager.pending_orders, the order_ids in order
    broker,           \* the PaperTradingAdapter the OrderManager drives
    reply             \* the last OrderManager call and what it returned

tradingVars == <<orders, pending_orders, broker, reply>>

vars == <<portfolio, call, ret, exc, pc, strategy, tickers, db, price_data,
          day, current_prices, hist, signals, idx, results, other,
          tradingVars>>

engineVars == <<pc, strategy, tickers, db, price_data, day, current_prices,
                hist, signals, idx, results, other, tradingVars>>

-----------------------------------------------------------------------------
(* Bounds of the exploration.  Scale: money is counted in 1/Scale units.   *)
(* MaxObjects: the direct calls stop buying once that many Position        *)
(* objects exist.  MaxDays, MaxClose: the dates and closes of the price    *)
(* table.  MaxSignals: the longest map a strategy returns.                 *)

Scale == 10
MaxObjects == 2
MaxDays == 2
MaxClose == 2
MaxSignals == 2

Tickers == {"A", "B"}
\* the arguments of the direct calls
Capitals == {0, 5}
Rates == {0, 1, 5}
Prices == {1, 2}
ShareCounts == {1, 2}
BuyDates == {1}
SellDates == {2}
EngineCapitals == {20}
EngineRates == {1}
TickerLists == {<< >>, <<"A">>, <<"A", "B">>}
SignalValues == {"BUY", "SELL", "HOLD"}
StartDate == 1
EndDate == MaxDays

-----------------------------------------------------------------------------
(* decimal.Decimal *)

None == << >>
Some(x) == <<x>>

Dec(v) == [nan |-> FALSE, v |-> v]
NaN == [nan |-> TRUE, v |-> 0]
Units(n) == Dec(n * Scale)

DecAdd(a, b) == IF a.nan \/ b.nan THEN NaN ELSE Dec(a.v + b.v)
DecSub(a, b) == IF a.nan \/ b.nan THEN NaN ELSE Dec(a.v - b.v)
DecMulInt(a, n) == IF a.nan THEN NaN ELSE Dec(a.v * n)
\* a * Decimal(str(commission_rate)), the rate being rate/Scale
DecMulRate(a, rate) == IF a.nan THEN NaN ELSE Dec((a.v * rate) \div Scale)
\* an ordering comparison of Decimals raises InvalidOperation on a NaN
CmpRaises(a, b) == a.nan \/ b.nan
DecGt(a, b) == a.v > b.v

RECURSIVE Gcd(_, _)
Gcd(a, b) == IF b = 0 THEN a ELSE Gcd(b, a % b)
Abs(n) == IF n < 0 THEN -n ELSE n

\* float(a / b) for b > 0: the quotient as a fraction in lowest terms
FNaN == [nan |-> TRUE, num |-> 0, den |-> 1]
Ratio(a, b) ==
    IF a.nan \/ b.nan THEN FNaN
    ELSE LET g == Gcd(Abs(a.v), b.v)
         IN  [nan |-> FALSE, num |-> a.v \div g, den |-> b.v \div g]

-----------------------------------------------------------------------------
(* class Position *)

NewPosition(id, ticker, entry_date, entry_price, shares, position_type) ==
    [id |-> id, ticker |-> ticker, entry_date |-> entry_date,
     entry_price |-> entry_price, shares |-> shares,
     position_type |-> position_type,
     exit_date |-> None, exit_price |-> None, pnl |-> None, pnl_pct |-> None]

CloseNoExitDate(p, exit_date, exit_price) ==
    LET diff == IF p.position_type = "LONG"
                THEN DecSub(exit_price, p.entry_price)
                ELSE DecSub(p.entry_price, exit_price)
    IN  [p EXCEPT !.exit_price = Some(exit_price),
                  !.pnl = Some(DecMulInt(diff, p.shares)),
                  !.pnl_pct = Some(Ratio(diff, p.entry_price))]

ClosePnlPerShare(p, exit_date, exit_price) ==
    LET diff == IF p.position_type = "LONG"
                THEN DecSub(exit_price, p.entry_price)
                ELSE DecSub(p.entry_price, exit_price)
    IN  [p EXCEPT !.exit_date = Some(exit_date),
                  !.exit_price = Some(exit_price),
                  !.pnl = Some(diff),
                  !.pnl_pct = Some(Ratio(diff, p.entry_price))]

Close(p, exit_date, exit_price) ==
    LET diff == IF p.position_type = "LONG"
                THEN DecSub(exit_price, p.entry_price)
                ELSE DecSub(p.entry_price, exit_price)
    IN  [p EXCEPT !.exit_date = Some(exit_date),
                  !.exit_price = Some(exit_price),
                  !.pnl = Some(DecMulInt(diff, p.shares)),
                  !.pnl_pct = Some(Ratio(diff, p.entry_price))]

GetValueAtEntry(p, current_price) == DecMulInt(p.entry_price, p.shares)

GetValue(p, current_price) ==
    IF p.position_type = "LONG"
    THEN DecMulInt(current_price, p.shares)
    ELSE DecMulInt(DecSub(DecMulInt(p.entry_price, 2), current_price), p.shares)

-----------------------------------------------------------------------------
(* class Portfolio.  Each method is an operator from the object (and the   *)
(* arguments) to [p: the object afterwards, ret: the value returned,       *)
(* exc: the exception raised or ""].                                       *)

NewPortfolio(initial_capital, commission_rate) ==
    [initial_capital |-> initial_capital, cash |-> initial_capital,
     commission_rate |-> commission_rate, positions |-> << >>,
     closed_positions |-> << >>, equity_curve |-> << >>]

\* the number of Position objects the portfolio has created
Created(P) == Len(P.positions) + Len(P.closed_positions)

TotalCostNoCommission(P, price, shares) == DecMulInt(price, shares)

TotalCost(P, price, shares) ==
    LET cost == DecMulInt(price, shares)
    IN  DecAdd(cost, DecMulRate(cost, P.commission_rate))

BuyAppendsAlways(P, ticker, date, price, shares) ==
    LET position == NewPosition(Created(P) + 1, ticker, date, price, shares, "LONG")
    IN  [p |-> [P EXCEPT !.positions = Append(@, position),
                         !.cash = DecSub(@, TotalCost(P, price, shares))],
         ret |-> Some(position), exc |-> ""]

BuyChecksCostOnly(P, ticker, date, price, shares) ==
    IF DecGt(DecMulInt(price, shares), P.cash)
    THEN [p |-> P, ret |-> None, exc |-> ""]
    ELSE BuyAppendsAlways(P, ticker, date, price, shares)

Buy(P, ticker, date, price, shares) ==
    LET total_cost == TotalCost(P, price, shares)
        position == NewPosition(Created(P) + 1, ticker, date, price, shares, "LONG")
    IN  IF CmpRaises(total_cost, P.cash)
        THEN [p |-> P, ret |-> None, exc |-> "InvalidOperation"]
        ELSE IF DecGt(total_cost, P.cash)
        THEN [p |-> P, ret |-> None, exc |-> ""]
        ELSE [p |-> [P EXCEPT !.positions = Append(@, position),
                              !.cash = DecSub(@, total_cost)],
              ret |-> Some(position), exc |-> ""]

\* next((p for p in self.positions if p.ticker == ticker), None), as an index
FindPosition(positions, ticker) ==
    IF \E i \in 1..Len(positions) : positions[i].ticker = ticker
    THEN CHOOSE i \in 1..Len(positions) :
            /\ positions[i].ticker = ticker
            /\ \A j \in 1..(i - 1) : positions[j].ticker # ticker
    ELSE 0

RemoveAt(s, i) == SubSeq(s, 1, i - 1) \o SubSeq(s, i + 1, Len(s))

SellNoShareCheck(P, ticker, date, price, shares) ==
    LET i == FindPosition(P.positions, ticker)
    IN  IF i = 0
        THEN [p |-> P, ret |-> None, exc |-> ""]
        ELSE LET position == P.positions[i]
                 shares_to_sell == IF shares # None THEN shares[1] ELSE position.shares
                 proceeds == DecMulInt(price, shares_to_sell)
                 closed == Close(position, date, price)
             IN  [p |-> [P EXCEPT
                          !.cash = DecAdd(@, DecSub(proceeds,
                                        DecMulRate(proceeds, P.commission_rate))),
                          !.positions = RemoveAt(@, i),
                          !.closed_positions = Append(@, closed)],
                  ret |-> Some(closed), exc |-> ""]

SellGrossProceeds(P, ticker, date, price, shares) ==
    LET i == FindPosition(P.positions, ticker)
    IN  IF i = 0
        THEN [p |-> P, ret |-> None, exc |-> ""]
        ELSE LET position == P.positions[i]
                 shares_to_sell == IF shares # None THEN shares[1] ELSE position.shares
                 closed == Close(position, date, price)
             IN  IF shares_to_sell > position.shares
                 THEN [p |-> P, ret |-> None, exc |-> ""]
                 ELSE [p |-> [P EXCEPT
                               !.cash = DecAdd(@, DecMulInt(price, shares_to_sell)),
                               !.positions = RemoveAt(@, i),
                               !.closed_positions = Append(@, closed)],
                       ret |-> Some(closed), exc |-> ""]

SellRaisesWhenNotHeld(P, ticker, date, price, shares) ==
    LET i == FindPosition(P.positions, ticker)
    IN  IF i = 0
        THEN [p |-> P, ret |-> None, exc |-> "StopIteration"]
        ELSE LET position == P.positions[i]
                 shares_to_sell == IF shares # None THEN shares[1] ELSE position.shares
                 proceeds == DecMulInt(price, shares_to_sell)
                 closed == Close(position, date, price)
             IN  IF shares_to_sell > position.shares
                 THEN [p |-> P, ret |-> None, exc |-> ""]
                 ELSE [p |-> [P EXCEPT
                               !.cash = DecAdd(@, DecSub(proceeds,
                                             DecMulRate(proceeds, P.commission_rate))),
                               !.positions = RemoveAt(@, i),
                               !.closed_positions = Append(@, closed)],
                       ret |-> Some(closed), exc |-> ""]

SellKeepsOpen(P, ticker, date, price, shares) ==
    LET i == FindPosition(P.positions, ticker)
    IN  IF i = 0
        THEN [p |-> P, ret |-> None, exc |-> ""]
        ELSE LET position == P.positions[i]
                 shares_to_sell == IF shares # None THEN shares[1] ELSE position.shares
                 proceeds == DecMulInt(price, shares_to_sell)
                 closed == Close(position, date, price)
             IN  IF shares_to_sell > position.shares
                 THEN [p |-> P, ret |-> None, exc |-> ""]
                 ELSE [p |-> [P EXCEPT
                               !.cash = DecAdd(@, DecSub(proceeds,
                                             DecMulRate(proceeds, P.commission_rate))),
                               !.positions[i] = closed,
                               !.closed_positions = Append(@, closed)],
                       ret |-> Some(closed), exc |-> ""]

SellSplitsPosition(P, ticker, date, price, shares) ==
    LET i == FindPosition(P.positions, ticker)
    IN  IF i = 0
        THEN [p |-> P, ret |-> None, exc |-> ""]
        ELSE LET position == P.positions[i]
                 shares_to_sell == IF shares # None THEN shares[1] ELSE position.shares
                 proceeds == DecMulInt(price, shares_to_sell)
                 commission == DecMulRate(proceeds, P.commission_rate)
                 net_proceeds == DecSub(proceeds, commission)
                 closed == Close([position EXCEPT !.shares = shares_to_sell],
                                 date, price)
                 rest == [position EXCEPT !.shares = @ - shares_to_sell]
             IN  IF shares_to_sell > position.shares
                 THEN [p |-> P, ret |-> None, exc |-> ""]
                 ELSE [p |-> [P EXCEPT !.cash = DecAdd(@, net_proceeds),
                                       !.positions =
                                           IF rest.shares = 0 THEN RemoveAt(@, i)
                                           ELSE [@ EXCEPT ![i] = rest],
                                       !.closed_positions = Append(@, closed)],
                       ret |-> Some(closed), exc |-> ""]

Sell(P, ticker, date, price, shares) ==
    LET i == FindPosition(P.positions, ticker)
    IN  IF i = 0
        THEN [p |-> P, ret |-> None, exc |-> ""]
        ELSE LET position == P.positions[i]
                 shares_to_sell == IF shares # None THEN shares[1] ELSE position.shares
                 proceeds == DecMulInt(price, shares_to_sell)
                 commission == DecMulRate(proceeds, P.commission_rate)
                 net_proceeds == DecSub(proceeds, commission)
                 closed == Close(position, date, price)
             IN  IF shares_to_sell > position.shares
                 THEN [p |-> P, ret |-> None, exc |-> ""]
                 ELSE [p |-> [P EXCEPT !.cash = DecAdd(@, net_proceeds),
                                       !.positions = RemoveAt(@, i),
                                       !.closed_positions = Append(@, closed)],
                       ret |-> Some(closed), exc |-> ""]

-----------------------------------------------------------------------------
(* The Portfolio driven directly: any sequence of buy and sell calls on a  *)
(* Portfolio built with a capital >= 0 and a rate in [0, 1).  No engine    *)
(* runs; its variables rest.                                               *)

NoEngine == << >>

\* no OrderManager and no broker
NoReply == [op |-> "none", order_id |-> 0, ret |-> << >>]
TradingIdle ==
    /\ orders = << >>
    /\ pending_orders = << >>
    /\ broker = << >>
    /\ reply = NoReply

NoCall == [op |-> "none", ticker |-> "", date |-> 0, price |-> Dec(0), shares |-> None]

EngineIdle ==
    /\ pc = "idle"
    /\ strategy = ""
    /\ tickers = << >>
    /\ db = {}
    /\ price_data = {}
    /\ day = 0
    /\ current_prices = << >>
    /\ hist = << >>
    /\ signals = << >>
    /\ idx = 0
    /\ results = << >>
    /\ other = NoEngine

Init ==
    /\ \E c \in Capitals, r \in Rates : portfolio = NewPortfolio(Units(c), r)
    /\ call = NoCall
    /\ ret = None
    /\ exc = ""
    /\ EngineIdle
    /\ TradingIdle

Apply(out) ==
    /\ portfolio' = out.p
    /\ ret' = out.ret
    /\ exc' = out.exc

CallBuy ==
    \E t \in Tickers, d \in BuyDates, pr \in Prices, n \in ShareCounts :
        /\ Created(portfolio) < MaxObjects
        /\ call' = [op |-> "buy", ticker |-> t, date |-> d, price |-> Units(pr),
                    shares |-> Some(n)]
        /\ Apply(Buy(portfolio, t, d, Units(pr), n))
        /\ UNCHANGED engineVars

CallSell ==
    \E t \in Tickers, d \in SellDates, pr \in Prices,
       n \in {None} \cup {Some(k) : k \in ShareCounts} :
        /\ call' = [op |-> "sell", ticker |-> t, date |-> d, price |-> Units(pr),
                    shares |-> n]
        /\ Apply(Sell(portfolio, t, d, Units(pr), n))
        /\ UNCHANGED engineVars

Next == CallBuy \/ CallSell

Spec == Init /\ [][Next]_vars

\* sell called without a share count: the whole position is sold
CallSellAll ==
    \E t \in Tickers, d \in SellDates, pr \in Prices :
        /\ call' = [op |-> "sell", ticker |-> t, date |-> d, price |-> Units(pr),
                    shares |-> None]
        /\ Apply(Sell(portfolio, t, d, Units(pr), None))
        /\ UNCHANGED engineVars

NextFullSell == CallBuy \/ CallSellAll

FullSellSpec == Init /\ [][NextFullSell]_vars

-----------------------------------------------------------------------------
(* A Position driven directly: the caller constructs one (ret holds the    *)
(* reference) and calls close on it any number of times.                   *)

Sides == {"LONG", "SHORT"}
ExitPrices == {1, 2, 3}

InitPosition ==
    /\ \E t \in Tickers, d \in BuyDates \cup SellDates, pr \in Prices,
          n \in ShareCounts, side \in Sides :
            ret = Some(NewPosition(1, t, d, Units(pr), n, side))
    /\ portfolio = NewPortfolio(Dec(0), 0)
    /\ call = NoCall
    /\ exc = ""
    /\ EngineIdle
    /\ TradingIdle

CallClose ==
    \E d \in BuyDates \cup SellDates, pr \in ExitPrices :
        /\ call' = [op |-> "close", ticker |-> "", date |-> d,
                    price |-> Units(pr), shares |-> None]
        /\ ret' = Some(Close(ret[1], d, Units(pr)))
        /\ exc' = ""
        /\ UNCHANGED portfolio
        /\ UNCHANGED engineVars

PositionSpec == InitPosition /\ [][CallClose]_vars

-----------------------------------------------------------------------------
(* float: the value as a fraction in lowest terms, or nan.  The rounding   *)
(* to 53 bits is left out: it is one-to-one and monotone on the amounts    *)
(* explored.                                                               *)

ToFloat(a) == Ratio(a, Dec(Scale))

-----------------------------------------------------------------------------
(* Portfolio.get_total_value, Portfolio.get_statistics, Position.to_dict   *)

RECURSIVE TotalValueFrom(_, _, _, _)
TotalValueFrom(positions, prices, i, total) ==
    IF i > Len(positions) THEN total
    ELSE TotalValueFrom(positions, prices, i + 1,
            IF positions[i].ticker \in DOMAIN prices
            THEN DecAdd(total, GetValue(positions[i], prices[positions[i].ticker]))
            ELSE total)

GetTotalValueCashOnly(P, prices) == P.cash

GetTotalValue(P, prices) == TotalValueFrom(P.positions, prices, 1, P.cash)

\* the price maps handed to get_total_value: any tickers, any prices
PriceMaps == UNION {[S -> {Units(pr) : pr \in Prices}] : S \in SUBSET Tickers}

CallGetTotalValue ==
    \E m \in PriceMaps :
        /\ call' = [op |-> "get_total_value", ticker |-> "", date |-> 0,
                    price |-> Dec(0), shares |-> None, prices |-> m]
        /\ ret' = Some(GetTotalValue(portfolio, m))
        /\ exc' = ""
        /\ UNCHANGED portfolio
        /\ UNCHANGED engineVars


\* the Portfolio driven directly, its value asked between the calls
NextValue == CallBuy \/ CallSell \/ CallGetTotalValue

ValueSpec == Init /\ [][NextValue]_vars

\* bool(d) of a Decimal: a NaN is true, a zero is false
Truthy(d) == d.nan \/ d.v # 0

Indices(s) == 1..Len(s)

\* p.pnl and p.pnl > 0 (resp. <= 0) is evaluated on a closed position whose
\* pnl is a NaN: the comparison raises
StatisticsRaise(P) ==
    \E i \in Indices(P.closed_positions) : P.closed_positions[i].pnl[1].nan

RECURSIVE SumPnl(_, _)
SumPnl(cl, S) ==
    IF S = {} THEN 0
    ELSE LET i == CHOOSE x \in S : TRUE
         IN  cl[i].pnl[1].v + SumPnl(cl, S \ {i})

FloatZero == [nan |-> FALSE, num |-> 0, den |-> 1]

\* reached only when no pnl is a NaN (see StatisticsRaise); initial_capital > 0
GetStatistics(P) ==
    IF P.closed_positions = << >>
    THEN [total_trades |-> 0, winning_trades |-> 0, losing_trades |-> 0,
          win_rate |-> FloatZero, total_pnl |-> FloatZero, avg_pnl |-> FloatZero,
          avg_win |-> FloatZero, avg_loss |-> FloatZero]
    ELSE LET cl == P.closed_positions
             n == Len(cl)
             winning == {i \in Indices(cl) : Truthy(cl[i].pnl[1]) /\ cl[i].pnl[1].v > 0}
             losing == {i \in Indices(cl) : Truthy(cl[i].pnl[1]) /\ cl[i].pnl[1].v <= 0}
             nw == Cardinality(winning)
             nl == Cardinality(losing)
             total_pnl == SumPnl(cl, {i \in Indices(cl) : Truthy(cl[i].pnl[1])})
             sum_win == SumPnl(cl, winning)
             sum_loss == SumPnl(cl, losing)
         IN  [total_trades |-> n,
              winning_trades |-> nw,
              losing_trades |-> nl,
              win_rate |-> Ratio(Dec(nw), Dec(n)),
              total_pnl |-> ToFloat(Dec(total_pnl)),
              total_pnl_pct |-> Ratio(Dec(total_pnl), P.initial_capital),
              avg_pnl |-> Ratio(Dec(total_pnl), Dec(n * Scale)),
              avg_win |-> IF nw > 0 THEN Ratio(Dec(sum_win), Dec(nw * Scale))
                          ELSE FloatZero,
              avg_loss |-> IF nl > 0 THEN Ratio(Dec(sum_loss), Dec(nl * Scale))
                           ELSE FloatZero,
              \* abs(avg_win / avg_loss), avg_win being 0 without winners
              profit_factor |-> IF nl > 0 /\ sum_loss # 0 /\ nw > 0
                                THEN Ratio(Dec(Abs(sum_win) * nl),
                                           Dec(Abs(sum_loss) * nw))
                                ELSE FloatZero]

ToDict(p) ==
    [ticker |-> p.ticker, entry_date |-> p.entry_date,
     entry_price |-> ToFloat(p.entry_price),
     exit_date |-> p.exit_date,
     exit_price |-> IF p.exit_price # None /\ Truthy(p.exit_price[1])
                    THEN Some(ToFloat(p.exit_price[1])) ELSE None,
     shares |-> p.shares, position_type |-> p.position_type,
     pnl |-> IF p.pnl # None /\ Truthy(p.pnl[1])
             THEN Some(ToFloat(p.pnl[1])) ELSE None,
     pnl_pct |-> p.pnl_pct]

-----------------------------------------------------------------------------
(* BacktestEngine.  The engine object keeps initial_capital and            *)
(* commission_rate; they are read off the Portfolio run builds from them.  *)

\* _load_price_data: the rows of the requested tickers within the dates
Range(s) == {s[i] : i \in 1..Len(s)}

LoadAllRows(table, tks, start_date, end_date) == table

LoadPriceData(table, tks, start_date, end_date) ==
    {r \in table : r.ticker \in Range(tks) /\ r.date >= start_date /\ r.date <= end_date}

RECURSIVE SortedSeq(_)
SortedSeq(S) ==
    IF S = {} THEN << >>
    ELSE LET m == CHOOSE x \in S : \A y \in S : x <= y
         IN  <<m>> \o SortedSeq(S \ {m})

\* the pivoted frame: its index, its ("close", ticker) columns, its cells
TradingDays(rows) == SortedSeq({r.date : r \in rows})
HasColumn(rows, t) == \E r \in rows : r.ticker = t
Quoted(rows, d, t) == \E r \in rows : r.ticker = t /\ r.date = d
\* Decimal(str(df.loc[d, ("close", t)])): an empty cell holds nan
CellPrice(rows, d, t) ==
    IF Quoted(rows, d, t)
    THEN Units((CHOOSE r \in rows : r.ticker = t /\ r.date = d).close)
    ELSE NaN

\* a lookup of a ticker with no column raises KeyError, caught by the bare except
BuildCurrentPricesQuotedOnly(rows, tks, d) ==
    [t \in {u \in Range(tks) : Quoted(rows, d, u)} |-> CellPrice(rows, d, t)]

BuildCurrentPrices(rows, tks, d) ==
    [t \in {u \in Range(tks) : HasColumn(rows, u)} |-> CellPrice(rows, d, t)]

\* df.loc[:trading_day], as the index of the slice
LocWholeFrame(days, i) == days
LocUpTo(days, i) == SubSeq(days, 1, i)

\* df.iloc[-1]
FinalPrices(rows, tks) ==
    LET days == TradingDays(rows)
    IN  BuildCurrentPrices(rows, tks, days[Len(days)])

\* the maps a strategy may return: tickers without repetition, in some order
SignalMaps ==
    {s \in UNION {[1..n -> Tickers \X SignalValues] : n \in 0..MaxSignals} :
        \A i, j \in 1..Len(s) : s[i][1] = s[j][1] => i = j}

NoResults == << >>

InitEngine ==
    /\ portfolio = NewPortfolio(Dec(0), 0)
    /\ call = NoCall
    /\ ret = None
    /\ exc = ""
    /\ pc = "idle"
    /\ strategy = "any"
    /\ tickers \in TickerLists
    /\ \E q \in [(1..MaxDays) \X Tickers -> 0..MaxClose] :
          db = {[ticker |-> k[2], date |-> k[1], close |-> q[k]] :
                  k \in {x \in (1..MaxDays) \X Tickers : q[x] > 0}}
    /\ price_data = {}
    /\ day = 0
    /\ current_prices = << >>
    /\ hist = << >>
    /\ signals = << >>
    /\ idx = 0
    /\ results = NoResults
    /\ other = NoEngine
    /\ TradingIdle

\* run, up to the first trading day
RunStart ==
    /\ pc = "idle"
    /\ \E c \in EngineCapitals, r \in EngineRates :
          portfolio' = NewPortfolio(Units(c), r)
    /\ price_data' = LoadPriceData(db, tickers, StartDate, EndDate)
    /\ IF price_data' = {}
       THEN pc' = "done" /\ day' = 0
       ELSE pc' = "day" /\ day' = 1
    /\ results' = NoResults
    /\ call' = NoCall /\ ret' = None /\ exc' = ""
    /\ UNCHANGED <<tradingVars, other, strategy, tickers, db, current_prices, hist, signals, idx>>

\* engine.py:327-339: the day's price map and the call of the strategy
StrategyCall ==
    /\ pc = "day"
    /\ current_prices' = BuildCurrentPrices(price_data, tickers,
                                            TradingDays(price_data)[day])
    /\ hist' = LocUpTo(TradingDays(price_data), day)
    /\ \/ /\ signals' \in SignalMaps
          /\ pc' = "exec"
          /\ exc' = ""
       \/ /\ signals' = << >>
          /\ pc' = "crashed"
          /\ exc' = "StrategyError"
    /\ idx' = 1
    /\ call' = NoCall /\ ret' = None
    /\ UNCHANGED <<portfolio, tradingVars, other, strategy, tickers, db, price_data, day, results>>

\* int(d) of a Decimal d = num/den, den > 0: the fraction is dropped
Trunc(num, den) == IF num >= 0 THEN num \div den ELSE -((-num) \div den)

\* engine.py:452-453: position_size = cash * Decimal("0.1"),
\* shares = int(position_size / price)
SharesFromInitialCapital(P, price) == Trunc(P.initial_capital.v, 10 * price.v)
PositionShares(P, price) == Trunc(P.cash.v, 10 * price.v)

\* one turn of the loop of _execute_signals
ExecuteSignal ==
    /\ pc = "exec"
    /\ idx <= Len(signals)
    /\ LET ticker == signals[idx][1]
           signal == signals[idx][2]
           trade_date == TradingDays(price_data)[day]
       IN  IF ticker \notin DOMAIN current_prices
           THEN /\ call' = NoCall /\ ret' = None /\ exc' = "" /\ pc' = pc
                /\ UNCHANGED portfolio
           ELSE LET price == current_prices[ticker] IN
                IF signal = "BUY"
                THEN IF price.nan \/ portfolio.cash.nan
                     THEN \* int(NaN)
                          /\ call' = NoCall /\ ret' = None
                          /\ exc' = "ValueError" /\ pc' = "crashed"
                          /\ UNCHANGED portfolio
                     ELSE LET shares == PositionShares(portfolio, price)
                          IN  IF shares > 0
                              THEN LET out == Buy(portfolio, ticker, trade_date,
                                                  price, shares)
                                   IN  /\ call' = [op |-> "buy", ticker |-> ticker,
                                                   date |-> trade_date,
                                                   price |-> price,
                                                   shares |-> Some(shares)]
                                       /\ Apply(out)
                                       /\ pc' = IF out.exc = "" THEN pc ELSE "crashed"
                              ELSE /\ call' = NoCall /\ ret' = None /\ exc' = ""
                                   /\ pc' = pc
                                   /\ UNCHANGED portfolio
                ELSE IF signal = "SELL"
                THEN /\ call' = [op |-> "sell", ticker |-> ticker,
                                 date |-> trade_date, price |-> price,
                                 shares |-> None]
                     /\ Apply(Sell(portfolio, ticker, trade_date, price, None))
                     /\ pc' = pc
                ELSE /\ call' = NoCall /\ ret' = None /\ exc' = "" /\ pc' = pc
                     /\ UNCHANGED portfolio
    /\ idx' = idx + 1
    /\ UNCHANGED <<tradingVars, other, strategy, tickers, db, price_data, day, current_prices, hist, signals,
                   results>>

EquityEntry(P, prices, d) ==
    [date |-> d, value |-> ToFloat(GetTotalValue(P, prices)),
     cash |-> ToFloat(P.cash), positions |-> Len(P.positions)]

\* engine.py:345-352, and the step to the next day or out of the loop
RecordEquity ==
    /\ pc = "exec"
    /\ idx > Len(signals)
    /\ portfolio' = [portfolio EXCEPT !.equity_curve =
            Append(@, EquityEntry(portfolio, current_prices,
                                  TradingDays(price_data)[day]))]
    /\ IF day < Len(TradingDays(price_data))
       THEN pc' = "day" /\ day' = day + 1
       ELSE pc' = "liquidate" /\ day' = day
    /\ call' = NoCall /\ ret' = None /\ exc' = ""
    /\ UNCHANGED <<tradingVars, other, strategy, tickers, db, price_data, current_prices, hist, signals, idx,
                   results>>

\* engine.py:361-367 over list(self.portfolio.positions)
RECURSIVE SellEach(_, _, _, _, _)
SellEach(P, snapshot, i, final_prices, end_date) ==
    IF i > Len(snapshot) THEN P
    ELSE SellEach(
            IF snapshot[i].ticker \in DOMAIN final_prices
            THEN Sell(P, snapshot[i].ticker, end_date,
                      final_prices[snapshot[i].ticker], None).p
            ELSE P,
            snapshot, i + 1, final_prices, end_date)

\* engine.py:354-367
CloseRemaining ==
    /\ pc = "liquidate"
    /\ portfolio' = SellEach(portfolio, portfolio.positions, 1,
                             FinalPrices(price_data, tickers), EndDate)
    /\ pc' = "report"
    /\ call' = NoCall /\ ret' = None /\ exc' = ""
    /\ UNCHANGED <<tradingVars, other, strategy, tickers, db, price_data, day, current_prices, hist, signals,
                   idx, results>>

RECURSIVE PnlFrom(_, _, _)
PnlFrom(closed, i, total) ==
    IF i > Len(closed) THEN total
    ELSE PnlFrom(closed, i + 1, DecAdd(total, closed[i].pnl[1]))

FinalValueFromPnl(P) == PnlFrom(P.closed_positions, 1, P.initial_capital)

\* engine.py:371
FinalValue(P) == GetTotalValue(P, << >>)

BuildResults(P) ==
    [initial_capital |-> ToFloat(P.initial_capital),
     final_value |-> ToFloat(FinalValue(P)),
     total_return |-> Ratio(DecSub(FinalValue(P), P.initial_capital),
                            P.initial_capital),
     statistics |-> GetStatistics(P),
     equity_curve |-> P.equity_curve,
     trades |-> [i \in Indices(P.closed_positions) |-> ToDict(P.closed_positions[i])]]

\* engine.py:369-389
Report ==
    /\ pc = "report"
    /\ IF StatisticsRaise(portfolio)
       THEN /\ pc' = "crashed"
            /\ exc' = "InvalidOperation"
            /\ results' = results
       ELSE /\ pc' = "done"
            /\ exc' = ""
            /\ results' = BuildResults(portfolio)
    /\ call' = NoCall /\ ret' = None
    /\ UNCHANGED <<portfolio, tradingVars, other, strategy, tickers, db, price_data, day, current_prices, hist,
                   signals, idx>>

NextEngine ==
    RunStart \/ StrategyCall \/ ExecuteSignal \/ RecordEquity \/ CloseRemaining
        \/ Report

EngineSpec == InitEngine /\ [][NextEngine]_vars

-----------------------------------------------------------------------------
(* The engine built with any commission rate from 0 to 9, on a table that  *)
(* quotes every ticker on every day                                        *)

\* commission rates 0, 1, 2 and 9
WideRates == {0, Scale, 2 * Scale, 9 * Scale}

InitRate ==
    /\ portfolio = NewPortfolio(Dec(0), 0)
    /\ call = NoCall
    /\ ret = None
    /\ exc = ""
    /\ pc = "idle"
    /\ strategy = "any"
    /\ tickers \in TickerLists
    /\ \E q \in [(1..MaxDays) \X Tickers -> 1..MaxClose] :
          db = {[ticker |-> k[2], date |-> k[1], close |-> q[k]] :
                  k \in (1..MaxDays) \X Tickers}
    /\ price_data = {}
    /\ day = 0
    /\ current_prices = << >>
    /\ hist = << >>
    /\ signals = << >>
    /\ idx = 0
    /\ results = NoResults
    /\ other = NoEngine
    /\ TradingIdle

\* run, up to the first trading day, of an engine built with any of the rates
RunStartAnyRate ==
    /\ pc = "idle"
    /\ \E c \in EngineCapitals, r \in WideRates :
          portfolio' = NewPortfolio(Units(c), r)
    /\ price_data' = LoadPriceData(db, tickers, StartDate, EndDate)
    /\ IF price_data' = {}
       THEN pc' = "done" /\ day' = 0
       ELSE pc' = "day" /\ day' = 1
    /\ results' = NoResults
    /\ call' = NoCall /\ ret' = None /\ exc' = ""
    /\ UNCHANGED <<tradingVars, other, strategy, tickers, db, current_prices, hist, signals, idx>>

NextRate ==
    RunStartAnyRate \/ StrategyCall \/ ExecuteSignal \/ RecordEquity
        \/ CloseRemaining \/ Report

RateSpec == InitRate /\ [][NextRate]_vars

\* run called again on the same engine, after a run has returned or raised:
\* engine.py:307 builds a new Portfolio from the engine's capital and rate,
\* and the locals of the call are new
RunAgainKeepsPortfolio ==
    /\ pc \in {"done", "crashed"}
    /\ tickers' \in TickerLists
    /\ price_data' = LoadPriceData(db, tickers', StartDate, EndDate)
    /\ IF price_data' = {}
       THEN pc' = "done" /\ day' = 0
       ELSE pc' = "day" /\ day' = 1
    /\ results' = NoResults
    /\ current_prices' = << >> /\ hist' = << >> /\ signals' = << >> /\ idx' = 0
    /\ call' = NoCall /\ ret' = None /\ exc' = ""
    /\ UNCHANGED <<portfolio, tradingVars, other, strategy, db>>

RunAgain ==
    /\ pc \in {"done", "crashed"}
    /\ tickers' \in TickerLists
    /\ portfolio' = NewPortfolio(portfolio.initial_capital,
                                 portfolio.commission_rate)
    /\ price_data' = LoadPriceData(db, tickers', StartDate, EndDate)
    /\ IF price_data' = {}
       THEN pc' = "done" /\ day' = 0
       ELSE pc' = "day" /\ day' = 1
    /\ results' = NoResults
    /\ current_prices' = << >> /\ hist' = << >> /\ signals' = << >> /\ idx' = 0
    /\ call' = NoCall /\ ret' = None /\ exc' = ""
    /\ UNCHANGED <<tradingVars, other, strategy, db>>

NextRerun ==
    RunStart \/ StrategyCall \/ ExecuteSignal \/ RecordEquity \/ CloseRemaining
        \/ Report \/ RunAgain

RerunSpec == InitEngine /\ [][NextRerun]_vars

-----------------------------------------------------------------------------
(* strategies.py.  A strategy is given the portfolio and the day's price   *)
(* map; keys is the iteration order of that map.  What the rolling means,  *)
(* bands and momentum scores say about a ticker is not computed: each of   *)
(* their outcomes is allowed, so that a strategy is the set of the signal  *)
(* maps it may return.                                                     *)

TopN == 1
Outlooks == {"up", "down", "flat"}
BuiltIns == {"ma", "momentum", "mean_reversion", "buy_hold"}

\* current_prices.keys(): the requested tickers that got a price, in order
KeysOf(tks, prices) ==
    LET InMap(t) == t \in DOMAIN prices IN SelectSeq(tks, InMap)

\* any(p.ticker == ticker for p in portfolio.positions)
HasPosition(P, ticker) ==
    \E i \in Indices(P.positions) : P.positions[i].ticker = ticker

\* the sequences that list each element of S once
Orders(S) ==
    {q \in [1..Cardinality(S) -> S] : \A i, j \in DOMAIN q : q[i] = q[j] => i = j}

RECURSIVE CrossoverSignalsUnguarded(_, _, _, _)
CrossoverSignalsUnguarded(P, keys, cross, i) ==
    IF i > Len(keys) THEN << >>
    ELSE LET rest == CrossoverSignalsUnguarded(P, keys, cross, i + 1)
         IN  IF cross[i] = "up" THEN <<<<keys[i], "BUY">>>> \o rest
             ELSE IF cross[i] = "down" THEN <<<<keys[i], "SELL">>>> \o rest
             ELSE rest

SimpleMovingAverageUnguarded(P, keys) ==
    {CrossoverSignalsUnguarded(P, keys, cross, 1) :
        cross \in [1..Len(keys) -> Outlooks]}

\* strategies.py:38-76, cross[i] being the crossover seen on keys[i]
RECURSIVE CrossoverSignals(_, _, _, _)
CrossoverSignals(P, keys, cross, i) ==
    IF i > Len(keys) THEN << >>
    ELSE LET ticker == keys[i]
             has_position == HasPosition(P, ticker)
             rest == CrossoverSignals(P, keys, cross, i + 1)
         IN  IF cross[i] = "up"
             THEN IF ~has_position THEN <<<<ticker, "BUY">>>> \o rest ELSE rest
             ELSE IF cross[i] = "down"
             THEN IF has_position THEN <<<<ticker, "SELL">>>> \o rest ELSE rest
             ELSE rest

SimpleMovingAverageStrategy(P, keys) ==
    {CrossoverSignals(P, keys, cross, 1) : cross \in [1..Len(keys) -> Outlooks]}

\* strategies.py:127-153, sorted_tickers being the scored tickers by score
MomentumSignals(P, sorted_tickers, sell_order) ==
    LET top_tickers == SubSeq(sorted_tickers, 1,
                              IF Len(sorted_tickers) < TopN
                              THEN Len(sorted_tickers) ELSE TopN)
        NotHeld(t) == ~HasPosition(P, t)
        NotTop(t) == t \notin Range(top_tickers)
        buys == SelectSeq(top_tickers, NotHeld)
        sells == SelectSeq(sell_order, NotTop)
    IN  [i \in 1..Len(buys) |-> <<buys[i], "BUY">>]
            \o [i \in 1..Len(sells) |-> <<sells[i], "SELL">>]

MomentumStrategy(P, keys) ==
    LET current_holdings == {P.positions[i].ticker : i \in Indices(P.positions)}
    IN  {<< >>} \cup
        {MomentumSignals(P, sorted_tickers, sell_order) :
            sorted_tickers \in UNION {Orders(T) : T \in SUBSET Range(keys) \ {{}}},
            sell_order \in Orders(current_holdings)}

\* strategies.py:185-220, band[i] being the side of the bands keys[i] is on
RECURSIVE BandSignals(_, _, _, _)
BandSignals(P, keys, band, i) ==
    IF i > Len(keys) THEN << >>
    ELSE LET ticker == keys[i]
             has_position == HasPosition(P, ticker)
             rest == BandSignals(P, keys, band, i + 1)
         IN  IF band[i] = "down" /\ ~has_position
             THEN <<<<ticker, "BUY">>>> \o rest
             ELSE IF band[i] = "up" /\ has_position
             THEN <<<<ticker, "SELL">>>> \o rest
             ELSE rest

MeanReversionStrategy(P, keys) ==
    {BandSignals(P, keys, band, 1) : band \in [1..Len(keys) -> Outlooks]}

BuyAndHoldEveryDay(P, keys) ==
    {[i \in 1..Len(keys) |-> <<keys[i], "BUY">>]}

\* strategies.py:242-249
BuyAndHoldStrategy(P, keys) ==
    IF P.positions = << >>
    THEN {[i \in 1..Len(keys) |-> <<keys[i], "BUY">>]}
    ELSE {<< >>}

BuiltInSignals(name, P, keys) ==
    CASE name = "ma" -> SimpleMovingAverageStrategy(P, keys)
      [] name = "momentum" -> MomentumStrategy(P, keys)
      [] name = "mean_reversion" -> MeanReversionStrategy(P, keys)
      [] name = "buy_hold" -> BuyAndHoldStrategy(P, keys)

\* engine.py:327-339 with a strategy of strategies.py
BuiltInCall ==
    /\ pc = "day"
    /\ strategy \in BuiltIns
    /\ current_prices' = BuildCurrentPrices(price_data, tickers,
                                            TradingDays(price_data)[day])
    /\ hist' = LocUpTo(TradingDays(price_data), day)
    /\ signals' \in BuiltInSignals(strategy, portfolio,
                                    KeysOf(tickers, current_prices'))
    /\ pc' = "exec"
    /\ exc' = ""
    /\ idx' = 1
    /\ call' = NoCall /\ ret' = None
    /\ UNCHANGED <<portfolio, tradingVars, other, strategy, tickers, db, price_data, day, results>>

\* run(strategy, tickers, ...) with a strategy of strategies.py
InitBuiltIn ==
    /\ portfolio = NewPortfolio(Dec(0), 0)
    /\ call = NoCall
    /\ ret = None
    /\ exc = ""
    /\ pc = "idle"
    /\ strategy \in BuiltIns
    /\ tickers \in TickerLists
    /\ \E q \in [(1..MaxDays) \X Tickers -> 0..MaxClose] :
          db = {[ticker |-> k[2], date |-> k[1], close |-> q[k]] :
                  k \in {x \in (1..MaxDays) \X Tickers : q[x] > 0}}
    /\ price_data = {}
    /\ day = 0
    /\ current_prices = << >>
    /\ hist = << >>
    /\ signals = << >>
    /\ idx = 0
    /\ results = NoResults
    /\ other = NoEngine
    /\ TradingIdle

NextBuiltIn ==
    RunStart \/ BuiltInCall \/ ExecuteSignal \/ RecordEquity \/ CloseRemaining
        \/ Report

BuiltInSpec == InitBuiltIn /\ [][NextBuiltIn]_vars

-----------------------------------------------------------------------------
(* buy_and_hold_strategy on one ticker, over a range of HoldDays dates     *)

HoldDays == 3
HoldCapitals == {10, 20}
HoldRates == {0, 1}

InitHold ==
    /\ portfolio = NewPortfolio(Dec(0), 0)
    /\ call = NoCall
    /\ ret = None
    /\ exc = ""
    /\ pc = "idle"
    /\ strategy = "buy_hold"
    /\ tickers = <<"A">>
    /\ \E q \in [1..HoldDays -> 0..MaxClose] :
          db = {[ticker |-> "A", date |-> d, close |-> q[d]] :
                  d \in {x \in 1..HoldDays : q[x] > 0}}
    /\ price_data = {}
    /\ day = 0
    /\ current_prices = << >>
    /\ hist = << >>
    /\ signals = << >>
    /\ idx = 0
    /\ results = NoResults
    /\ other = NoEngine
    /\ TradingIdle

\* run(buy_and_hold_strategy, tickers, StartDate, HoldDays), up to the first
\* trading day
HoldRunStart ==
    /\ pc = "idle"
    /\ \E c \in HoldCapitals, r \in HoldRates :
          portfolio' = NewPortfolio(Units(c), r)
    /\ price_data' = LoadPriceData(db, tickers, StartDate, HoldDays)
    /\ IF price_data' = {}
       THEN pc' = "done" /\ day' = 0
       ELSE pc' = "day" /\ day' = 1
    /\ results' = NoResults
    /\ call' = NoCall /\ ret' = None /\ exc' = ""
    /\ UNCHANGED <<tradingVars, other, strategy, tickers, db, current_prices, hist, signals, idx>>

\* engine.py:354-367 of that run
HoldCloseRemaining ==
    /\ pc = "liquidate"
    /\ portfolio' = SellEach(portfolio, portfolio.positions, 1,
                             FinalPrices(price_data, tickers), HoldDays)
    /\ pc' = "report"
    /\ call' = NoCall /\ ret' = None /\ exc' = ""
    /\ UNCHANGED <<tradingVars, other, strategy, tickers, db, price_data, day, current_prices, hist,
                   signals, idx, results>>

NextHold ==
    HoldRunStart \/ BuiltInCall \/ ExecuteSignal \/ RecordEquity
        \/ HoldCloseRemaining \/ Report

HoldSpec == InitHold /\ [][NextHold]_vars

-----------------------------------------------------------------------------
(* Two BacktestEngine instances, their runs interleaved                    *)

\* Everything one BacktestEngine instance and its run own: the instance's
\* attributes and the locals of run, _execute_signals and the Portfolio call
EngineState ==
    [portfolio |-> portfolio, call |-> call, ret |-> ret, exc |-> exc,
     pc |-> pc, strategy |-> strategy, tickers |-> tickers,
     price_data |-> price_data, day |-> day,
     current_prices |-> current_prices, hist |-> hist, signals |-> signals,
     idx |-> idx, results |-> results]

\* The engine that is not taking steps keeps its state, tagged with its number
Parked(e, n) ==
    [self |-> n, portfolio |-> e.portfolio, call |-> e.call, ret |-> e.ret,
     exc |-> e.exc, pc |-> e.pc, strategy |-> e.strategy,
     tickers |-> e.tickers, price_data |-> e.price_data, day |-> e.day,
     current_prices |-> e.current_prices, hist |-> e.hist,
     signals |-> e.signals, idx |-> e.idx, results |-> e.results]

\* a Portfolio class whose state is one object shared by every instance
SwitchSharedPortfolio ==
    /\ other # NoEngine
    /\ other' = Parked(EngineState, 3 - other.self)
    /\ portfolio' = portfolio
    /\ call' = other.call
    /\ ret' = other.ret
    /\ exc' = other.exc
    /\ pc' = other.pc
    /\ strategy' = other.strategy
    /\ tickers' = other.tickers
    /\ price_data' = other.price_data
    /\ day' = other.day
    /\ current_prices' = other.current_prices
    /\ hist' = other.hist
    /\ signals' = other.signals
    /\ idx' = other.idx
    /\ results' = other.results
    /\ UNCHANGED <<db, tradingVars>>

\* The scheduler passes from one run to the other: each instance keeps the
\* attributes and locals it had (self.portfolio is set per instance, by run);
\* the database session is the one object both instances were given
Switch ==
    /\ other # NoEngine
    /\ other' = Parked(EngineState, 3 - other.self)
    /\ portfolio' = other.portfolio
    /\ call' = other.call
    /\ ret' = other.ret
    /\ exc' = other.exc
    /\ pc' = other.pc
    /\ strategy' = other.strategy
    /\ tickers' = other.tickers
    /\ price_data' = other.price_data
    /\ day' = other.day
    /\ current_prices' = other.current_prices
    /\ hist' = other.hist
    /\ signals' = other.signals
    /\ idx' = other.idx
    /\ results' = other.results
    /\ UNCHANGED <<db, tradingVars>>

\* compare_strategies: one engine per strategy name, all of them built with
\* the same session, capital and commission rate and run on the same tickers
InitTwo ==
    /\ portfolio = NewPortfolio(Dec(0), 0)
    /\ call = NoCall
    /\ ret = None
    /\ exc = ""
    /\ pc = "idle"
    /\ strategy \in BuiltIns
    /\ tickers \in TickerLists
    /\ \E q \in [1..MaxDays -> 0..MaxClose] :
          db = {[ticker |-> "A", date |-> d, close |-> q[d]] :
                  d \in {x \in 1..MaxDays : q[x] > 0}}
    /\ price_data = {}
    /\ day = 0
    /\ current_prices = << >>
    /\ hist = << >>
    /\ signals = << >>
    /\ idx = 0
    /\ results = NoResults
    /\ \E name \in BuiltIns :
          other = Parked([EngineState EXCEPT !.strategy = name], 2)
    /\ TradingIdle

NextTwo ==
    RunStart \/ BuiltInCall \/ ExecuteSignal \/ RecordEquity \/ CloseRemaining
        \/ Report \/ Switch

TwoSpec == InitTwo /\ [][NextTwo]_vars

-----------------------------------------------------------------------------
(* Order management: class Order and PaperTradingAdapter                   *)
(* (broker_adapter.py), class OrderManager (order_manager.py).  An Order   *)
(* is one object that the OrderManager and the adapter both hold, so the   *)
(* orders are kept by order_id and both sides write the same record.       *)
(* Amounts here are whole currency units.                                  *)

MaxOrders == 2
\* submit_order is explored while the pending list and the adapter's list of
\* filled orders are shorter than this
MaxPending == 2
MaxFills == 2
Quantities == {1, 2}
LimitPrices == {None, Some(50)}
PaperCash == {100, 250}
Statuses == {"PENDING", "SUBMITTED", "PARTIALLY_FILLED", "FILLED", "CANCELLED",
             "REJECTED", "EXPIRED"}

\* the variables of the backtest, which rest while orders are managed
backtestVars == <<portfolio, call, ret, exc, pc, strategy, tickers, db,
                  price_data, day, current_prices, hist, signals, idx, results,
                  other>>

\* Order.__init__
NewOrder(ticker, side, quantity, price) ==
    [ticker |-> ticker, side |-> side, quantity |-> quantity, price |-> price,
     status |-> "PENDING", filled_quantity |-> 0, average_fill_price |-> None,
     broker_order_id |-> None]

\* PaperTradingAdapter.__init__
NewBroker(initial_cash) ==
    [cash |-> initial_cash, positions |-> << >>, orders |-> {},
     filled_orders |-> << >>, connected |-> FALSE]

\* a Decimal quotient a / b as a fraction in lowest terms
Frac(a, b) == LET g == Gcd(a, b) IN [num |-> a \div g, den |-> b \div g]

\* a dictionary with one key set or replaced, and with one key deleted
SetKey(f, k, v) == [x \in DOMAIN f \cup {k} |-> IF x = k THEN v ELSE f[x]]
DelKey(f, k) == [x \in DOMAIN f \ {k} |-> f[x]]

\* PaperTradingAdapter._simulate_fill, on order o with order_id id: the
\* order and the adapter afterwards
SimulateFill(b, o, id) ==
    LET fill_price == IF o.price # None THEN o.price[1] ELSE 100
        filled == [o EXCEPT !.filled_quantity = o.quantity,
                            !.average_fill_price = Some(fill_price),
                            !.status = "FILLED"]
        rejected == [filled EXCEPT !.status = "REJECTED"]
        cost == fill_price * o.quantity
    IN  IF o.side = "BUY"
        THEN IF cost > b.cash
             THEN [order |-> rejected, broker |-> b]
             ELSE LET pos == IF o.ticker \in DOMAIN b.positions
                             THEN LET old == b.positions[o.ticker]
                                      total_qty == old.quantity + o.quantity
                                  IN  [quantity |-> total_qty,
                                       average_price |->
                                           Frac(old.average_price.num * old.quantity
                                                  + cost * old.average_price.den,
                                                old.average_price.den * total_qty)]
                             ELSE [quantity |-> o.quantity,
                                   average_price |-> Frac(fill_price, 1)]
                  IN  [order |-> filled,
                       broker |-> [b EXCEPT
                           !.cash = @ - cost,
                           !.positions = SetKey(@, o.ticker, pos),
                           !.filled_orders = Append(@, id)]]
        ELSE IF o.ticker \notin DOMAIN b.positions
             THEN [order |-> rejected, broker |-> b]
             ELSE LET old == b.positions[o.ticker] IN
                  IF old.quantity < o.quantity
                  THEN [order |-> rejected, broker |-> b]
                  ELSE [order |-> filled,
                        broker |-> [b EXCEPT
                            !.cash = @ + cost,
                            !.positions =
                                IF old.quantity = o.quantity
                                THEN DelKey(@, o.ticker)
                                ELSE SetKey(@, o.ticker,
                                            [old EXCEPT !.quantity = @ - o.quantity]),
                            !.filled_orders = Append(@, id)]]

\* PaperTradingAdapter.submit_order: raises when not connected, else stores
\* the order and fills it at once
BrokerSubmit(b, o, id) ==
    IF ~b.connected
    THEN [order |-> o, broker |-> b, raised |-> TRUE]
    ELSE LET out == SimulateFill([b EXCEPT !.orders = @ \cup {id}],
                                 [o EXCEPT !.status = "SUBMITTED"], id)
         IN  [order |-> out.order, broker |-> out.broker, raised |-> FALSE]

\* PaperTradingAdapter.cancel_order: the order afterwards and the answer
BrokerCancel(b, ords, id) ==
    IF id \in b.orders /\ ords[id].status \in {"PENDING", "SUBMITTED"}
    THEN [order |-> [ords[id] EXCEPT !.status = "CANCELLED"], ret |-> TRUE]
    ELSE [order |-> ords[id], ret |-> FALSE]

\* PaperTradingAdapter.get_order_status
BrokerStatus(b, ords, id) ==
    IF id \in b.orders THEN ords[id].status ELSE "REJECTED"

\* RiskManager.validate_order: the answers it may give.  The cash and share
\* checks are those of the code; the two percentage limits depend on the
\* RiskLimits the manager was built with, so a BUY that passes the cash
\* check may pass or fail them.
ValidateOrder(b, o) ==
    IF o.side = "BUY"
    THEN LET cost == IF o.price # None THEN o.price[1] * o.quantity ELSE 0
         IN  IF cost > b.cash THEN {FALSE} ELSE {TRUE, FALSE}
    ELSE IF o.ticker \notin DOMAIN b.positions THEN {FALSE}
         ELSE IF o.quantity > b.positions[o.ticker].quantity THEN {FALSE}
         ELSE {TRUE}

\* list.remove: the first occurrence goes
RemoveFirst(s, x) ==
    IF \E i \in 1..Len(s) : s[i] = x
    THEN RemoveAt(s, CHOOSE i \in 1..Len(s) :
                        s[i] = x /\ \A j \in 1..(i - 1) : s[j] # x)
    ELSE s

\* a session: an OrderManager with no orders on a PaperTradingAdapter
InitOrders ==
    /\ portfolio = NewPortfolio(Dec(0), 0)
    /\ call = NoCall
    /\ ret = None
    /\ exc = ""
    /\ EngineIdle
    /\ orders = << >>
    /\ pending_orders = << >>
    /\ \E c \in PaperCash : broker = NewBroker(c)
    /\ reply = NoReply

\* PaperTradingAdapter.connect and disconnect
Connect ==
    /\ ~broker.connected
    /\ broker' = [broker EXCEPT !.connected = TRUE]
    /\ reply' = [op |-> "connect", order_id |-> 0, ret |-> Some(TRUE)]
    /\ UNCHANGED <<orders, pending_orders, backtestVars>>

Disconnect ==
    /\ broker.connected
    /\ broker' = [broker EXCEPT !.connected = FALSE]
    /\ reply' = [op |-> "disconnect", order_id |-> 0, ret |-> None]
    /\ UNCHANGED <<orders, pending_orders, backtestVars>>

\* OrderManager.create_order
CreateOrder ==
    \E t \in Tickers, side \in {"BUY", "SELL"}, q \in Quantities,
       price \in LimitPrices :
        /\ Len(orders) < MaxOrders
        /\ orders' = Append(orders, NewOrder(t, side, q, price))
        /\ reply' = [op |-> "create_order", order_id |-> Len(orders) + 1,
                     ret |-> Some(Len(orders) + 1)]
        /\ UNCHANGED <<pending_orders, broker, backtestVars>>

\* OrderManager.submit_order
SubmitOrder ==
    \E id \in 1..Len(orders), validate_risk \in BOOLEAN,
       is_valid \in BOOLEAN :
        /\ Len(pending_orders) < MaxPending
        /\ Len(broker.filled_orders) < MaxFills
        /\ validate_risk => is_valid \in ValidateOrder(broker, orders[id])
        /\ ~validate_risk => is_valid
        /\ IF ~is_valid
           THEN /\ orders' = [orders EXCEPT ![id].status = "REJECTED"]
                /\ reply' = [op |-> "submit_order", order_id |-> id,
                             ret |-> Some(FALSE)]
                /\ UNCHANGED <<pending_orders, broker>>
           ELSE LET out == BrokerSubmit(broker, orders[id], id) IN
                IF out.raised
                THEN /\ orders' = [orders EXCEPT ![id].status = "REJECTED"]
                     /\ reply' = [op |-> "submit_order", order_id |-> id,
                                  ret |-> Some(FALSE)]
                     /\ UNCHANGED <<pending_orders, broker>>
                ELSE /\ orders' = [orders EXCEPT
                                     ![id] = [out.order EXCEPT
                                                !.broker_order_id = Some(id),
                                                !.status = "SUBMITTED"]]
                     /\ broker' = out.broker
                     /\ pending_orders' = Append(pending_orders, id)
                     /\ reply' = [op |-> "submit_order", order_id |-> id,
                                  ret |-> Some(TRUE)]
        /\ UNCHANGED backtestVars

\* OrderManager.cancel_order
CancelOrder ==
    \E id \in 1..MaxOrders :
        /\ IF id \notin 1..Len(orders)
              \/ orders[id].status \notin {"PENDING", "SUBMITTED"}
           THEN UNCHANGED <<orders, pending_orders>>
                /\ reply' = [op |-> "cancel_order", order_id |-> id,
                             ret |-> Some(FALSE)]
           ELSE LET out == BrokerCancel(broker, orders, id) IN
                IF out.ret
                THEN /\ orders' = [orders EXCEPT ![id] = out.order]
                     /\ pending_orders' = RemoveFirst(pending_orders, id)
                     /\ reply' = [op |-> "cancel_order", order_id |-> id,
                                  ret |-> Some(TRUE)]
                ELSE /\ UNCHANGED <<orders, pending_orders>>
                     /\ reply' = [op |-> "cancel_order", order_id |-> id,
                                  ret |-> Some(FALSE)]
        /\ UNCHANGED <<broker, backtestVars>>

\* OrderManager.update_order_status on the orders ords and the pending list
\* pend: both afterwards, and the status returned
UpdateStatus(ords, pend, b, id) ==
    IF id \notin 1..Len(ords)
    THEN [orders |-> ords, pending |-> pend, ret |-> "REJECTED"]
    ELSE LET status == BrokerStatus(b, ords, id)
         IN  [orders |-> [ords EXCEPT ![id].status = status],
              pending |-> IF status \in {"FILLED", "CANCELLED", "REJECTED"}
                          THEN RemoveFirst(pend, id)
                          ELSE pend,
              ret |-> status]

UpdateOrderStatus ==
    \E id \in 1..MaxOrders :
        LET out == UpdateStatus(orders, pending_orders, broker, id)
        IN  /\ orders' = out.orders
            /\ pending_orders' = out.pending
            /\ reply' = [op |-> "update_order_status", order_id |-> id,
                         ret |-> Some(out.ret)]
            /\ UNCHANGED <<broker, backtestVars>>

RECURSIVE UpdateEach(_, _, _, _)
\* the loop of update_all_pending_orders over a copy of the pending list
UpdateEach(ids, ords, pend, b) ==
    IF ids = << >> THEN [orders |-> ords, pending |-> pend]
    ELSE LET out == UpdateStatus(ords, pend, b, Head(ids))
         IN  UpdateEach(Tail(ids), out.orders, out.pending, b)

\* OrderManager.update_all_pending_orders
UpdateAllPendingOrders ==
    LET out == UpdateEach(pending_orders, orders, pending_orders, broker)
    IN  /\ orders' = out.orders
        /\ pending_orders' = out.pending
        /\ reply' = [op |-> "update_all_pending_orders", order_id |-> 0,
                     ret |-> None]
        /\ UNCHANGED <<broker, backtestVars>>

NextOrders ==
    Connect \/ Disconnect \/ CreateOrder \/ SubmitOrder \/ CancelOrder
        \/ UpdateOrderStatus \/ UpdateAllPendingOrders

OrderSpec == InitOrders /\ [][NextOrders]_vars

\* the same session on an adapter that was connected and stays so
InitPaper ==
    /\ portfolio = NewPortfolio(Dec(0), 0)
    /\ call = NoCall
    /\ ret = None
    /\ exc = ""
    /\ EngineIdle
    /\ orders = << >>
    /\ pending_orders = << >>
    /\ \E c \in PaperCash : broker = [NewBroker(c) EXCEPT !.connected = TRUE]
    /\ reply = NoReply

NextPaper ==
    CreateOrder \/ SubmitOrder \/ CancelOrder \/ UpdateOrderStatus
        \/ UpdateAllPendingOrders

PaperSpec == InitPaper /\ [][NextPaper]_vars

-----------------------------------------------------------------------------
(* Properties of the Portfolio driven directly (Spec)                      *)

\* price * shares * (1 + commission_rate) of a buy call, and the cash, both
\* in units of 1/Scale^2
CallTotal(c, P) == c.price.v * c.shares[1] * (Scale + P.commission_rate)
CashScaled(P) == P.cash.v * Scale

\* C1: after any sequence of buy and sell calls the cash is a number >= 0.
CashNeverNegative == ~portfolio.cash.nan /\ portfolio.cash.v >= 0

\* after a sale, an accepted buy has left less than one currency unit of a
\* positive capital
CashNearlySpent ==
    /\ portfolio.initial_capital.v > 0
    /\ portfolio.cash.v < Scale
    /\ portfolio.positions # << >>
    /\ portfolio.closed_positions # << >>
    /\ call.op = "buy" /\ ret # None

\* C2: for every ticker at most one open Position has that ticker.
OneOpenPositionPerTicker ==
    \A i, j \in Indices(portfolio.positions) :
        portfolio.positions[i].ticker = portfolio.positions[j].ticker => i = j

\* C3: a buy whose total cost exceeds the cash returns None and changes
\* nothing of the portfolio; a buy that returns a Position was funded, and a
\* funded buy returns one, debits exactly the total cost and opens a position.
BuyOnlyWhenFunded ==
    [][call'.op = "buy" =>
        /\ CallTotal(call', portfolio) > CashScaled(portfolio) =>
              ret' = None /\ portfolio' = portfolio
        /\ CallTotal(call', portfolio) <= CashScaled(portfolio) =>
              /\ ret' # None
              /\ CashScaled(portfolio') = CashScaled(portfolio) - CallTotal(call', portfolio)
              /\ Len(portfolio'.positions) = Len(portfolio.positions) + 1
      ]_vars

\* an unfunded buy was rejected by a portfolio that holds a position
UnfundedBuyRejected ==
    /\ call.op = "buy"
    /\ ret = None
    /\ portfolio.positions # << >>
    /\ CallTotal(call, portfolio) > CashScaled(portfolio)

\* the ticker of the call has no open position
NoOpenPosition(c, P) ==
    \A i \in Indices(P.positions) : P.positions[i].ticker # c.ticker
\* the call asks for more shares than the ticker's (first) open position has
Oversized(c, P) ==
    /\ c.shares # None
    /\ \E i \in Indices(P.positions) :
          /\ P.positions[i].ticker = c.ticker
          /\ \A j \in 1..(i - 1) : P.positions[j].ticker # c.ticker
          /\ c.shares[1] > P.positions[i].shares

\* C4: a sell for a ticker with no open position, or for more shares than the
\* open position has, returns None, raises nothing and changes nothing.
SellRejectedUnchanged ==
    [][(call'.op = "sell" /\ (NoOpenPosition(call', portfolio)
                                \/ Oversized(call', portfolio)))
        => ret' = None /\ exc' = "" /\ portfolio' = portfolio]_vars

\* an oversized sell was rejected
OversizedSellRejected ==
    /\ call.op = "sell"
    /\ ret = None
    /\ Oversized(call, portfolio)
    /\ portfolio.closed_positions # << >>

-----------------------------------------------------------------------------
(* Properties of a run of the engine (EngineSpec)                          *)

Today == TradingDays(price_data)[day]
HistRows == {r \in price_data : r.date \in Range(hist)}

\* C5: on every trading day the slice handed to the strategy holds exactly
\* the loaded rows dated on or before that day.
NoLookAhead ==
    pc = "exec" => HistRows = {r \in price_data : r.date <= Today}

\* the strategy was called on a day that has later rows
CalledBeforeLastDay ==
    /\ pc = "exec"
    /\ \E r \in price_data : r.date > Today
    /\ \E r \in HistRows : r.date = Today

\* C6: the engine takes the signals in the order of the returned map, one per
\* step; a buy it makes is for the signal in turn, with
\* shares = floor(0.10 * cash / price) > 0 of the cash at that moment, and a
\* BUY signal with a price and such a share count > 0 is handed to buy.
FloorOfTenth(n, P, price) ==
    /\ n * 10 * price.v <= P.cash.v
    /\ P.cash.v < (n + 1) * 10 * price.v

SizedFromCurrentCash ==
    [][(pc = "exec" /\ idx <= Len(signals) /\ idx' # idx) =>
        LET ticker == signals[idx][1]
            signal == signals[idx][2]
        IN  /\ idx' = idx + 1
            /\ signals' = signals
            /\ call'.op = "buy" =>
                  /\ signal = "BUY"
                  /\ call'.ticker = ticker
                  /\ call'.price = current_prices[ticker]
                  /\ call'.shares[1] > 0
                  /\ FloorOfTenth(call'.shares[1], portfolio, call'.price)
            /\ call'.op = "sell" =>
                  /\ signal = "SELL"
                  /\ call'.ticker = ticker
                  /\ call'.price = current_prices[ticker]
                  /\ call'.shares = None
            /\ (/\ signal = "BUY"
                /\ ticker \in DOMAIN current_prices
                /\ ~current_prices[ticker].nan
                /\ ~portfolio.cash.nan
                /\ portfolio.cash.v >= 10 * current_prices[ticker].v)
                  => call'.op = "buy"
      ]_vars

\* two buys of one day at one price, the later one for fewer shares
LaterBuyGotLess ==
    /\ call.op = "buy"
    /\ \E i, j \in Indices(portfolio.positions) :
          /\ i < j
          /\ portfolio.positions[i].entry_date = portfolio.positions[j].entry_date
          /\ portfolio.positions[i].entry_price = portfolio.positions[j].entry_price
          /\ portfolio.positions[j].shares < portfolio.positions[i].shares

\* cash + the market values of the open positions whose ticker is in prices
RECURSIVE MarketValue(_, _, _)
MarketValue(positions, prices, i) ==
    IF i > Len(positions) THEN Dec(0)
    ELSE LET p == positions[i]
             rest == MarketValue(positions, prices, i + 1)
         IN  IF p.ticker \in DOMAIN prices
             THEN DecAdd(DecMulInt(prices[p.ticker], p.shares), rest)
             ELSE rest

\* C7: the loop appends one entry per day, after the day's signals: its value
\* is cash + the market values of the open positions at the day's prices,
\* its cash the cash, its positions the number of open positions; when the
\* loop ends the curve has one entry per distinct date, in ascending order.
EquityCurvePerDay ==
    [][/\ portfolio'.equity_curve # portfolio.equity_curve =>
            /\ pc = "exec" /\ idx > Len(signals)
            /\ portfolio'.equity_curve = Append(portfolio.equity_curve,
                  [date |-> Today,
                   value |-> ToFloat(DecAdd(portfolio.cash,
                                MarketValue(portfolio.positions, current_prices, 1))),
                   cash |-> ToFloat(portfolio.cash),
                   positions |-> Len(portfolio.positions)])
       /\ (pc = "exec" /\ pc' = "liquidate") =>
            LET curve == portfolio'.equity_curve
            IN  /\ Len(curve) = Cardinality({r.date : r \in price_data})
                /\ \A i \in Indices(curve) : \E r \in price_data : r.date = curve[i].date
                /\ \A i, j \in Indices(curve) : i < j => curve[i].date < curve[j].date
      ]_vars

\* the loop ended after two days, on one of which a position was held and
\* nothing was traded on the other
CurveOfTwoDays ==
    /\ pc = "liquidate"
    /\ Len(portfolio.equity_curve) = 2
    /\ portfolio.equity_curve[1].positions = 1
    /\ portfolio.equity_curve[1].value # portfolio.equity_curve[1].cash
    /\ portfolio.equity_curve[2].cash = portfolio.equity_curve[1].cash

LastDay == TradingDays(price_data)[Len(TradingDays(price_data))]

\* C8: final liquidation sells every open position whose ticker is quoted on
\* the last loaded day, at that close and dated end_date, leaves open every
\* position whose ticker is not quoted on that day, and opens none.
FinalLiquidation ==
    [][(pc = "liquidate" /\ pc' = "report") =>
        /\ \A i \in Indices(portfolio.positions) :
              LET p == portfolio.positions[i]
              IN  IF Quoted(price_data, LastDay, p.ticker)
                  THEN \E k \in Indices(portfolio'.closed_positions) :
                          LET c == portfolio'.closed_positions[k]
                          IN  /\ c.id = p.id
                              /\ c.exit_date = Some(EndDate)
                              /\ c.exit_price = Some(CellPrice(price_data, LastDay, p.ticker))
                  ELSE \E k \in Indices(portfolio'.positions) :
                          portfolio'.positions[k] = p
        /\ \A k \in Indices(portfolio'.positions) :
              \E i \in Indices(portfolio.positions) :
                  portfolio.positions[i] = portfolio'.positions[k]
      ]_vars

\* C9: the reported final_value is the cash after final liquidation, and
\* total_return * initial_capital = final_value - initial_capital.
FinalValueIsCash ==
    (pc = "done" /\ price_data # {}) =>
        /\ ~portfolio.cash.nan
        /\ ~results.final_value.nan
        /\ results.final_value.num * Scale = portfolio.cash.v * results.final_value.den
        /\ ~results.total_return.nan
        /\ results.total_return.den > 0
        /\ results.total_return.num * portfolio.initial_capital.v
              = (portfolio.cash.v - portfolio.initial_capital.v) * results.total_return.den

\* a run that traded has reported
ReportedAfterTrades ==
    /\ pc = "done"
    /\ Len(portfolio.closed_positions) >= 2
    /\ results.final_value # results.initial_capital

\* C10: on every trading day current_prices holds exactly the requested
\* tickers quoted that day; an unquoted ticker is not traded that day, adds
\* nothing to the day's equity value, and the day raises nothing.
OnlyQuotedTickersPriced ==
    /\ pc = "exec" =>
          DOMAIN current_prices = {t \in Range(tickers) : Quoted(price_data, Today, t)}
    /\ pc = "crashed" => exc = "StrategyError"

-----------------------------------------------------------------------------
(* Round trip and the effect of one accepted call (Spec)                   *)

\* a buy is followed at once by the sale, at the same price, of all the
\* shares of the position it opened
RoundTrip ==
    /\ call.op = "buy" /\ ret # None
    /\ call'.op = "sell" /\ ret' # None
    /\ ret'[1].id = ret[1].id
    /\ call'.price = call.price
    /\ call'.shares \in {None, call.shares}

\* 2 * p * n * commission_rate of a buy call, in units of 1/Scale^2
TwoLegs(c, P) == 2 * c.price.v * c.shares[1] * P.commission_rate

\* C11 (as stated): a buy of n shares at p followed at once by the sale of
\* all n at p gives that trade a realized pnl of -2 * p * n * commission_rate.
RoundTripPnlIsCommission ==
    [][RoundTrip =>
        /\ ~ret'[1].pnl[1].nan
        /\ ret'[1].pnl[1].v * Scale = -TwoLegs(call, portfolio)]_vars

\* C11 (amended): such a round trip gives the trade a realized pnl of
\* exactly 0, and leaves the cash exactly 2 * p * n * commission_rate below
\* the cash before the buy.
RoundTripPnlZero ==
    [][RoundTrip =>
        /\ ret'[1].pnl = Some(Dec(0))
        /\ CashScaled(portfolio') =
              CashScaled(portfolio) + CallTotal(call, portfolio)
                  - TwoLegs(call, portfolio)]_vars

\* the only position ever opened was sold at its entry price, under a
\* commission rate > 0
RoundTripDone ==
    /\ call.op = "sell" /\ ret # None
    /\ Created(portfolio) = 1
    /\ portfolio.commission_rate > 0
    /\ ret[1].exit_price = Some(ret[1].entry_price)
    /\ portfolio.cash.v < portfolio.initial_capital.v

\* C12: a buy that returns a Position raised nothing, took exactly
\* price * shares + price * shares * commission_rate from the cash, appended
\* to the open positions one LONG Position (the one returned) with the
\* call's ticker, date, price and shares and with exit_date, exit_price and
\* pnl unset, and left the other open positions and the closed ones as they
\* were.
BuyEffect ==
    [][(call'.op = "buy" /\ ret' # None) =>
        LET n == Len(portfolio.positions)
            p == portfolio'.positions[n + 1]
        IN  /\ exc' = ""
            /\ CashScaled(portfolio') =
                  CashScaled(portfolio) - CallTotal(call', portfolio)
            /\ Len(portfolio'.positions) = n + 1
            /\ SubSeq(portfolio'.positions, 1, n) = portfolio.positions
            /\ ret' = Some(p)
            /\ p.ticker = call'.ticker
            /\ p.entry_date = call'.date
            /\ p.entry_price = call'.price
            /\ p.shares = call'.shares[1]
            /\ p.position_type = "LONG"
            /\ p.exit_date = None /\ p.exit_price = None /\ p.pnl = None
            /\ portfolio'.closed_positions = portfolio.closed_positions
            /\ portfolio'.initial_capital = portfolio.initial_capital
      ]_vars

\* a commission was charged on a buy made by a portfolio that has a closed
\* position
BoughtWithCommission ==
    /\ call.op = "buy" /\ ret # None
    /\ portfolio.commission_rate > 0
    /\ portfolio.closed_positions # << >>
    /\ portfolio.positions # << >>

\* C13: a sell that returns a Position raised nothing, added exactly
\* price * s - price * s * commission_rate to the cash (s the shares asked
\* for, or all the shares of the position when none are given), closed the
\* first open Position of the ticker with exit_date = date and
\* exit_price = price, took it out of the open positions and appended it to
\* the closed ones.
SellEffect ==
    [][(call'.op = "sell" /\ ret' # None) =>
        \E i \in Indices(portfolio.positions) :
            LET p == portfolio.positions[i]
                c == ret'[1]
                s == IF call'.shares = None THEN p.shares ELSE call'.shares[1]
            IN  /\ p.ticker = call'.ticker
                /\ \A j \in 1..(i - 1) : portfolio.positions[j].ticker # call'.ticker
                /\ exc' = ""
                /\ CashScaled(portfolio') =
                      CashScaled(portfolio)
                          + call'.price.v * s * (Scale - portfolio.commission_rate)
                /\ c.id = p.id /\ c.ticker = p.ticker
                /\ c.entry_date = p.entry_date /\ c.entry_price = p.entry_price
                /\ c.shares = p.shares /\ c.position_type = p.position_type
                /\ c.exit_date = Some(call'.date)
                /\ c.exit_price = Some(call'.price)
                /\ c.pnl # None
                /\ Len(portfolio'.positions) = Len(portfolio.positions) - 1
                /\ \A k \in Indices(portfolio'.positions) :
                      portfolio'.positions[k] =
                          portfolio.positions[IF k < i THEN k ELSE k + 1]
                /\ portfolio'.closed_positions =
                      Append(portfolio.closed_positions, c)
      ]_vars

\* under a commission rate > 0, one share of a position of two was sold
\* while another position stayed open
PartialSaleCredited ==
    /\ call.op = "sell" /\ ret # None
    /\ portfolio.commission_rate > 0
    /\ call.shares = Some(1)
    /\ ret[1].shares = 2
    /\ portfolio.positions # << >>

\* C14: get_total_value raises nothing and returns the cash plus, for each
\* open position whose ticker is in the price map, the mapped price times
\* its shares; the positions whose ticker is not in the map add nothing.
TotalValueIsCashPlusPriced ==
    call.op = "get_total_value" =>
        /\ exc = ""
        /\ ret = Some(DecAdd(portfolio.cash,
                             MarketValue(portfolio.positions, call.prices, 1)))

\* the value was asked with a map that lacks the ticker of one open position
\* and prices another away from its entry price
OneTickerUnpriced ==
    /\ call.op = "get_total_value"
    /\ \E i, j \in Indices(portfolio.positions) :
          /\ portfolio.positions[i].ticker \notin DOMAIN call.prices
          /\ portfolio.positions[j].ticker \in DOMAIN call.prices
          /\ call.prices[portfolio.positions[j].ticker]
                # portfolio.positions[j].entry_price

Unset(p) == p.exit_date = None /\ p.exit_price = None /\ p.pnl = None
AllSet(p) == p.exit_date # None /\ p.exit_price # None /\ p.pnl # None

\* C15: through any calls of buy and sell, every open Position has
\* exit_date, exit_price and pnl unset and every closed one has the three
\* set; no Position object is in both lists or twice in one; the closed list
\* changes only by one Position appended at its end, and that Position was
\* open and not yet closed before the step, so that close acts once on each
\* closed Position and never on it again.
PositionLifecycle ==
    [][LET open == portfolio'.positions
           closed == portfolio'.closed_positions
           before == portfolio.closed_positions
       IN  /\ \A i \in Indices(open) : Unset(open[i])
           /\ \A i \in Indices(closed) : AllSet(closed[i])
           /\ \A i \in Indices(open), j \in Indices(closed) : open[i].id # closed[j].id
           /\ \A i, j \in Indices(open) : open[i].id = open[j].id => i = j
           /\ \A i, j \in Indices(closed) : closed[i].id = closed[j].id => i = j
           /\ Len(before) <= Len(closed) /\ Len(closed) <= Len(before) + 1
           /\ SubSeq(closed, 1, Len(before)) = before
           /\ Len(closed) = Len(before) + 1 =>
                 \E i \in Indices(portfolio.positions) :
                     /\ Unset(portfolio.positions[i])
                     /\ closed[Len(closed)] =
                           Close(portfolio.positions[i], call'.date, call'.price)
      ]_vars

\* two positions were closed, the one opened later first, and a further call
\* followed
ClosedOutOfOrder ==
    /\ Len(portfolio.closed_positions) = 2
    /\ portfolio.closed_positions[1].id = 2
    /\ portfolio.closed_positions[2].id = 1
    /\ call.op = "sell" /\ ret = None

-----------------------------------------------------------------------------
(* Properties of a Position closed directly (PositionSpec)                 *)

\* C16: close called on a Position that is already closed leaves its pnl,
\* pnl_pct, exit_date and exit_price as the first close set them (whether
\* the call is rejected or not).
SecondCloseChangesNothing ==
    [][(call'.op = "close" /\ ret[1].exit_date # None) =>
        /\ ret'[1].pnl = ret[1].pnl
        /\ ret'[1].pnl_pct = ret[1].pnl_pct
        /\ ret'[1].exit_date = ret[1].exit_date
        /\ ret'[1].exit_price = ret[1].exit_price]_vars

-----------------------------------------------------------------------------
(* Rejections, failures and empty runs of the engine (EngineSpec)          *)

\* C17: an order of the engine that buy or sell rejects (it returns None)
\* raises nothing and is passed over like a HOLD: the portfolio, the
\* day, its prices and its signals are as before and the loop is at the next
\* signal; and wherever the loop stands within a day, it has a next step
\* (the next signal, or the day's equity entry and the next day).
RejectedOrderSkipped ==
    /\ [][(pc = "exec" /\ call'.op \in {"buy", "sell"} /\ ret' = None) =>
            /\ exc' = ""
            /\ pc' = "exec"
            /\ portfolio' = portfolio
            /\ idx' = idx + 1
            /\ signals' = signals
            /\ day' = day
            /\ current_prices' = current_prices]_vars
    /\ [](pc = "exec" => ENABLED NextEngine)

\* on the first day the first signal, a SELL, was rejected and the second,
\* a BUY, was executed
BoughtAfterRejectedSell ==
    /\ pc = "exec" /\ day = 1 /\ idx = 3
    /\ signals[1][2] = "SELL"
    /\ signals[1][1] \in DOMAIN current_prices
    /\ call.op = "buy" /\ ret # None
    /\ portfolio.closed_positions = << >>

\* C18: a strategy that raises on a trading day does not abort the run: the
\* run is never found stopped by the strategy's exception.
StrategyFailureSurvived ==
    exc = "StrategyError" => pc # "crashed"

\* the table has no row of a requested ticker dated within the run
NoMatchingRows ==
    \A r \in db : ~(/\ \E i \in 1..Len(tickers) : tickers[i] = r.ticker
                     /\ StartDate <= r.date
                     /\ r.date <= EndDate)

\* C19: when the table has no row for the requested tickers and dates (the
\* ticker list may be empty), run raises nothing and returns the empty
\* result, which has no total_return; the strategy was not called, no order
\* was made and the equity curve is empty.
NoDataNoRun ==
    (pc # "idle" /\ NoMatchingRows) =>
        /\ pc = "done"
        /\ exc = ""
        /\ results = NoResults
    /\ other = NoEngine
    /\ TradingIdle
        /\ "total_return" \notin DOMAIN results
        /\ hist = << >> /\ signals = << >> /\ current_prices = << >>
        /\ call = NoCall
        /\ portfolio.positions = << >>
        /\ portfolio.closed_positions = << >>
        /\ portfolio.cash = portfolio.initial_capital
        /\ portfolio.equity_curve = << >>

\* a run for no tickers over a table that has rows has returned
EmptyTickerListReturned ==
    /\ pc = "done"
    /\ tickers = << >>
    /\ db # {}
    /\ NoMatchingRows

\* the statistics fields a report consumer reads
CountFields == {"total_trades", "winning_trades", "losing_trades"}
RateFields == {"win_rate", "total_pnl", "total_pnl_pct", "avg_pnl", "avg_win",
               "avg_loss", "profit_factor"}

\* C20: the report of a run that closed no position has every statistics
\* field, each with the value zero.
EmptyStatisticsAllZero ==
    (pc = "done" /\ price_data # {} /\ portfolio.closed_positions = << >>) =>
        /\ \A f \in CountFields :
              /\ f \in DOMAIN results.statistics
              /\ results.statistics[f] = 0
        /\ \A f \in RateFields :
              /\ f \in DOMAIN results.statistics
              /\ results.statistics[f] = FloatZero

-----------------------------------------------------------------------------
(* Statistics and the course of a run (EngineSpec)                         *)

\* C21: the report of a run that closed positions has total_trades = their
\* number, winning_trades = the number with pnl > 0, losing_trades = the
\* number with pnl <= 0 (a pnl of exactly 0 is a loss), so that the two add
\* up to total_trades, and win_rate = winning_trades / total_trades.
StatisticsCountEveryTrade ==
    (pc = "done" /\ portfolio.closed_positions # << >>) =>
        LET cl == portfolio.closed_positions
            st == results.statistics
            won == {i \in Indices(cl) : cl[i].pnl[1].v > 0}
            lost == {i \in Indices(cl) : cl[i].pnl[1].v <= 0}
        IN  /\ st.total_trades = Len(cl)
            /\ st.winning_trades = Cardinality(won)
            /\ st.losing_trades = Cardinality(lost)
            /\ st.winning_trades + st.losing_trades = st.total_trades
            /\ st.win_rate.num * st.total_trades
                  = st.winning_trades * st.win_rate.den

\* the steps from one phase of run to another
PhaseOrder ==
    {<<"idle", "day">>, <<"idle", "done">>, <<"day", "exec">>,
     <<"exec", "day">>, <<"exec", "liquidate">>, <<"liquidate", "report">>,
     <<"report", "done">>,
     <<"day", "crashed">>, <<"exec", "crashed">>, <<"report", "crashed">>,
     <<"done", "day">>, <<"crashed", "day">>, <<"crashed", "done">>}

Fresh(P) ==
    /\ P.cash = P.initial_capital
    /\ P.positions = << >>
    /\ P.closed_positions = << >>
    /\ P.equity_curve = << >>

\* C22: each call of run, the first or a later one on the same engine,
\* starts from a fresh Portfolio; the phases follow one another as
\* INIT -> day loop -> final liquidation -> report (or the run stops); the
\* strategy is called, signals are executed and equity is recorded only in
\* the day loop, before the one liquidation step; the result is assembled
\* after it, and nothing changes the portfolio from then on.
RunPhasesInOrder ==
    [][/\ pc' # pc => <<pc, pc'>> \in PhaseOrder
       /\ pc \in {"idle", "done", "crashed"} =>
              /\ Fresh(portfolio')
              /\ portfolio'.initial_capital.v > 0
              /\ results' = NoResults
       /\ (hist' # hist \/ signals' # signals) =>
              pc \in {"day", "done", "crashed"}
       /\ idx' # idx => pc \in {"day", "exec", "done", "crashed"}
       /\ portfolio'.equity_curve # portfolio.equity_curve =>
              pc \in {"exec", "done", "crashed"}
       /\ portfolio' # portfolio =>
              pc \in {"idle", "exec", "liquidate", "done", "crashed"}
       /\ pc = "liquidate" => pc' = "report"
       /\ pc = "report" =>
              /\ portfolio' = portfolio
              /\ pc' = "done" => results' = BuildResults(portfolio)
       /\ results' # results => pc \in {"report", "done"}
      ]_vars

\* a run that traded on two days, liquidated and reported has returned
RunWentThroughAllPhases ==
    /\ pc = "done"
    /\ Len(portfolio.equity_curve) = 2
    /\ portfolio.closed_positions # << >>
    /\ portfolio.positions = << >>
    /\ results.equity_curve = portfolio.equity_curve

-----------------------------------------------------------------------------
(* Properties of buy-and-hold on one ticker (HoldSpec)                     *)

\* the closes of the first and of the last trading day, in 1/Scale units
FirstClose == CellPrice(price_data, TradingDays(price_data)[1], tickers[1]).v
LastClose == CellPrice(price_data, LastDay, tickers[1]).v
HoldReturned == pc = "done" /\ price_data # {} /\ strategy = "buy_hold"

\* C23 (as stated): the total_return of buy-and-hold on one ticker is
\* (p1/p0 - 1) less the two commission legs rate * (1 + p1/p0), within the
\* weight of one share (its cost with commission over the capital).
BuyAndHoldFullReturn ==
    HoldReturned =>
        LET tr == results.total_return
            cap == portfolio.initial_capital.v
            rate == portfolio.commission_rate
            p0 == FirstClose
            p1 == LastClose
            claimed == Scale * (p1 - p0) - rate * (p0 + p1)
            larger == IF p0 < p1 THEN p1 ELSE p0
        IN  Abs(tr.num * Scale * p0 * cap - tr.den * cap * claimed)
                <= tr.den * p0 * larger * (Scale + rate)

\* C23 (amended): when a tenth of the capital buys at least one share at
\* p0, total_return * initial_capital is exactly
\* shares * (p1 * (1 - rate) - p0 * (1 + rate)) with
\* shares = floor(0.10 * initial_capital / p0), whatever the closes of the
\* days in between.
BuyAndHoldTenthReturn ==
    HoldReturned =>
        LET tr == results.total_return
            cap == portfolio.initial_capital.v
            rate == portfolio.commission_rate
            p0 == FirstClose
            p1 == LastClose
            shares == cap \div (10 * p0)
        IN  shares >= 1 =>
                /\ ~tr.nan /\ tr.den > 0
                /\ tr.num * cap * Scale
                      = tr.den * shares * (p1 * (Scale - rate) - p0 * (Scale + rate))

\* a run of three trading days, the close of the second unlike that of the
\* first, has returned a gain under a commission rate > 0
HeldOverThreeDays ==
    /\ HoldReturned
    /\ Len(TradingDays(price_data)) = 3
    /\ CellPrice(price_data, TradingDays(price_data)[2], tickers[1]).v # FirstClose
    /\ portfolio.commission_rate > 0
    /\ results.total_return.num > 0
    /\ Len(portfolio.closed_positions) = 1

-----------------------------------------------------------------------------
(* Properties of a run driven by a strategy of strategies.py (BuiltInSpec) *)

Holds(P, t) == \E i \in Indices(P.positions) : P.positions[i].ticker = t

\* C24: a built-in strategy returns BUY only for tickers the portfolio does
\* not hold and SELL only for tickers it holds; in every state of the run at
\* most one open position has a given ticker, and no sell of the run was
\* rejected.
BuiltInsRespectHoldings ==
    /\ [][(pc = "day" /\ pc' = "exec") =>
            \A i \in 1..Len(signals') :
                /\ signals'[i][2] = "BUY" => ~Holds(portfolio, signals'[i][1])
                /\ signals'[i][2] = "SELL" => Holds(portfolio, signals'[i][1])
                /\ \A j \in 1..Len(signals') :
                      signals'[i][1] = signals'[j][1] => i = j]_vars
    /\ [](\A i, j \in Indices(portfolio.positions) :
            portfolio.positions[i].ticker = portfolio.positions[j].ticker
                => i = j)
    /\ [](call.op = "sell" => ret # None)

\* a strategy that holds one ticker asked to buy the other and to sell the
\* one it holds, and both were done
RotatedHoldings ==
    /\ pc = "exec" /\ idx = 3
    /\ signals[1][2] = "BUY" /\ signals[2][2] = "SELL"
    /\ call.op = "sell" /\ ret # None
    /\ Len(portfolio.positions) = 1
    /\ portfolio.positions[1].ticker = signals[1][1]

-----------------------------------------------------------------------------
(* Properties of two interleaved runs (TwoSpec)                            *)

\* both runs are over, each with a result or an uncaught exception
BothOver == pc \in {"done", "crashed"} /\ other.pc \in {"done", "crashed"}

\* the two instances were given the same strategy, hence the same run
SameRun == strategy = "buy_hold" /\ other.strategy = "buy_hold"

-----------------------------------------------------------------------------
(* Properties of buys and full-position sells (FullSellSpec)               *)

RECURSIVE SumOver(_, _, _)
\* the sum of F(item, rate) over a list of positions
SumOver(F(_, _), list, rate) ==
    IF list = << >> THEN 0
    ELSE F(Head(list), rate) + SumOver(F, Tail(list), rate)

\* entry_price * shares * (1 + commission_rate), in units of 1/Scale^2
EntryCost(p, rate) == p.entry_price.v * p.shares * (Scale + rate)

\* pnl - commission_rate * (entry_price + exit_price) * shares, in units of
\* 1/Scale^2
NetOfLegs(p, rate) ==
    p.pnl[1].v * Scale - rate * (p.entry_price.v + p.exit_price[1].v) * p.shares

\* C26: after any sequence of buys and full-position sells, the cash plus
\* what the open positions cost with their commission equals the initial
\* capital plus, over the closed positions, the pnl less the commission of
\* both legs.
CashConservation ==
    /\ ~portfolio.cash.nan
    /\ \A i \in Indices(portfolio.closed_positions) :
          /\ portfolio.closed_positions[i].pnl # None
          /\ ~portfolio.closed_positions[i].pnl[1].nan
    /\ CashScaled(portfolio)
          + SumOver(EntryCost, portfolio.positions, portfolio.commission_rate)
       = portfolio.initial_capital.v * Scale
          + SumOver(NetOfLegs, portfolio.closed_positions,
                    portfolio.commission_rate)

\* one position is open and one was sold whole at a price other than its
\* entry price, under a commission rate > 0
OpenAndClosedAtAGain ==
    /\ call.op = "sell" /\ ret # None
    /\ portfolio.commission_rate > 0
    /\ Len(portfolio.positions) = 1
    /\ Len(portfolio.closed_positions) = 1
    /\ portfolio.closed_positions[1].shares = 2
    /\ portfolio.closed_positions[1].pnl[1].v > 0

-----------------------------------------------------------------------------
(* A sale of part of a position (Spec)                                     *)

\* sell is called with a share count below the shares of the first open
\* position of the ticker, position i
PartialSaleOf(i) ==
    /\ call'.op = "sell"
    /\ i = FindPosition(portfolio.positions, call'.ticker)
    /\ i > 0
    /\ call'.shares # None
    /\ call'.shares[1] < portfolio.positions[i].shares

\* C27: a sell of k shares, 0 < k < position.shares, returns the Position
\* closed as a whole, with a pnl over all its shares, and moves it from the
\* open to the closed positions; the cash is credited with
\* price * k * (1 - commission_rate) only; the open positions afterwards are
\* the former ones less that one, so none holds the shares left unsold.
PartialSaleClosesAll ==
    [][\A i \in Indices(portfolio.positions) :
          PartialSaleOf(i) =>
              LET p == portfolio.positions[i]
                  k == call'.shares[1]
              IN  /\ ret' # None /\ exc' = ""
                  /\ ret'[1].id = p.id
                  /\ ret'[1].shares = p.shares
                  /\ ret'[1].pnl =
                        Some(Dec((call'.price.v - p.entry_price.v) * p.shares))
                  /\ CashScaled(portfolio') =
                        CashScaled(portfolio)
                          + call'.price.v * k * (Scale - portfolio.commission_rate)
                  /\ portfolio'.positions = RemoveAt(portfolio.positions, i)
                  /\ \A j \in Indices(portfolio'.positions) :
                        portfolio'.positions[j].id # p.id
                  /\ portfolio'.closed_positions =
                        Append(portfolio.closed_positions, ret'[1])]_vars

\* one share of a two-share position was sold above the entry price: the
\* pnl is that of two shares and nothing stays open
HalfSoldAllClosed ==
    /\ call.op = "sell" /\ ret # None
    /\ call.shares = Some(1)
    /\ ret[1].shares = 2
    /\ ret[1].pnl = Some(Dec(2 * Scale))
    /\ portfolio.positions = << >>

-----------------------------------------------------------------------------
(* The engine's buys under commission rates up to 9 (RateSpec)             *)

\* a run is under way or over
Running == pc # "idle"

\* C28: with a commission rate from 0 to 9 and prices > 0, every BUY the
\* engine submits is accepted, and the cash stays > 0 throughout the run.
BuysAcceptedCashPositive ==
    /\ call.op = "buy" => (ret # None /\ exc = "")
    /\ Running => (~portfolio.cash.nan /\ portfolio.cash.v > 0)

-----------------------------------------------------------------------------
(* Properties of the order management (PaperSpec, OrderSpec)               *)

\* C29: an order whose fill the adapter has applied (it is among the
\* adapter's filled orders, its cash and positions changed) has the status
\* FILLED from then on: when submit_order returns True, after
\* update_all_pending_orders and after a cancel_order.
FilledStaysFilled ==
    \A i \in 1..Len(broker.filled_orders) :
        orders[broker.filled_orders[i]].status = "FILLED"

\* C30: pending_orders holds each order at most once, and only orders whose
\* status is PENDING, SUBMITTED or PARTIALLY_FILLED.
PendingOnlyLiveOrders ==
    /\ \A i, j \in 1..Len(pending_orders) :
          pending_orders[i] = pending_orders[j] => i = j
    /\ \A i \in 1..Len(pending_orders) :
          orders[pending_orders[i]].status
              \in {"PENDING", "SUBMITTED", "PARTIALLY_FILLED"}

====
